---------------------------- MODULE Spec2Model ----------------------------
(***************************************************************************)
(* Title resolution of the film scanner: the TMDB search cascade           *)
(* (getImdbIdForTitle), its batch entry point (getImdbIdsForTitles) and    *)
(* the single-title pipeline (fetchMovieData) that adds the OMDb rating.   *)
(*                                                                         *)
(* A JavaScript string is a sequence of one-character strings.  A code     *)
(* point outside ASCII is written by its name ("U+00FC").  An async        *)
(* function is a process whose state is the call it is awaiting; one       *)
(* action is one handler: from the arrival of a response to the next       *)
(* await (or to the return).                                               *)
(***************************************************************************)
EXTENDS Integers, Sequences, FiniteSets, TLC

(***************************************************************************)
(* Strings                                                                 *)
(***************************************************************************)

\* A value that is not a string at run time (undefined, null): TypeScript's
\* types are erased, so a field or an argument typed string may hold it.
Undef == <<"undefined">>

Str(s) == s /= Undef

\* JavaScript truthiness of a string-or-undefined value.
Truthy(s) == s /= Undef /\ s /= <<>>

Uppers == <<"A","B","C","D","E","F","G","H","I","J","K","L","M",
            "N","O","P","Q","R","S","T","U","V","W","X","Y","Z">>

Lowers == <<"a","b","c","d","e","f","g","h","i","j","k","l","m",
            "n","o","p","q","r","s","t","u","v","w","x","y","z">>

Digits == <<"0","1","2","3","4","5","6","7","8","9">>

Range(s) == {s[i] : i \in DOMAIN s}

IsWhite(c) == c \in {" ", "\t", "\n"}

IsDigit(c) == c \in Range(Digits)

\* \p{L}.  U+00FC and U+00DC are the precomposed u-umlaut and U-umlaut;
\* U+0308, the combining diaeresis, is a mark (Mn) and not a letter.
IsLetter(c) == c \in Range(Uppers) \cup Range(Lowers) \cup {"U+00FC", "U+00DC"}

\* String.prototype.toLowerCase, one code point.
LowerChar(c) ==
  IF c \in Range(Uppers)
    THEN Lowers[CHOOSE i \in DOMAIN Uppers : Uppers[i] = c]
    ELSE IF c = "U+00DC" THEN "U+00FC" ELSE c

\* String.prototype.normalize('NFD'), one code point: canonical decomposition.
DecomposeChar(c) ==
  IF c = "U+00FC" THEN <<"u", "U+0308">>
  ELSE IF c = "U+00DC" THEN <<"U", "U+0308">>
  ELSE <<c>>

toLowerCase(s) == [i \in DOMAIN s |-> LowerChar(s[i])]

RECURSIVE NFD(_)
NFD(s) == IF s = <<>> THEN <<>> ELSE DecomposeChar(Head(s)) \o NFD(Tail(s))

\* replace(/[^\p{L}\p{N}\s]/gu, ' ')
ReplacePunct(s) ==
  [i \in DOMAIN s |-> IF IsLetter(s[i]) \/ IsDigit(s[i]) \/ IsWhite(s[i])
                        THEN s[i] ELSE " "]

\* replace(/\s+/g, r): every maximal run of white space becomes r.
RECURSIVE ReplaceWhiteRuns(_, _)
ReplaceWhiteRuns(s, r) ==
  IF s = <<>> THEN <<>>
  ELSE IF IsWhite(Head(s))
    THEN IF Len(s) > 1 /\ IsWhite(s[2])
           THEN ReplaceWhiteRuns(Tail(s), r)
           ELSE r \o ReplaceWhiteRuns(Tail(s), r)
    ELSE <<Head(s)>> \o ReplaceWhiteRuns(Tail(s), r)

RECURSIVE TrimLeft(_)
TrimLeft(s) == IF s /= <<>> /\ IsWhite(Head(s)) THEN TrimLeft(Tail(s)) ELSE s

RECURSIVE TrimRight(_)
TrimRight(s) ==
  IF s /= <<>> /\ IsWhite(s[Len(s)]) THEN TrimRight(SubSeq(s, 1, Len(s) - 1)) ELSE s

trim(s) == TrimRight(TrimLeft(s))

\* tmdbService normalizeText (the letter/digit-preserving NFD profile).
normalizeText(text) ==
  trim(ReplaceWhiteRuns(ReplacePunct(NFD(toLowerCase(text))), <<" ">>))

\* String.prototype.normalize('NFKD'), one code point: the compatibility
\* decomposition.  U+2122, the trade mark sign, is no letter and has no
\* lower case; it decomposes into the letters T and M.
DecomposeCompatChar(c) ==
  IF c = "U+2122" THEN <<"T", "M">> ELSE DecomposeChar(c)

RECURSIVE NFKD(_)
NFKD(s) == IF s = <<>> THEN <<>> ELSE DecomposeCompatChar(Head(s)) \o NFKD(Tail(s))

IsDiacritic(c) == c = "U+0308"

IsNoDiacritic(c) == ~IsDiacritic(c)

\* replace(/[\u0300-\u036f]/g, '')
RemoveDiacritics(s) == SelectSeq(s, IsNoDiacritic)

\* \w without the u flag: [A-Za-z0-9_]
IsWordChar(c) == c \in Range(Uppers) \cup Range(Lowers) \cup Range(Digits) \cup {"_"}

\* replace(/[^\w\s]/g, ' ')
ReplaceNonWord(s) ==
  [i \in DOMAIN s |-> IF IsWordChar(s[i]) \/ IsWhite(s[i]) THEN s[i] ELSE " "]

\* normalizeText of the service that strips the diacritics (the NFKD
\* profile).
normalizeTextNFKD(text) ==
  trim(ReplaceWhiteRuns(ReplaceNonWord(RemoveDiacritics(NFKD(toLowerCase(text)))),
                        <<" ">>))

startsWith(s, p) == Len(p) <= Len(s) /\ SubSeq(s, 1, Len(p)) = p

includes(s, p) ==
  \E i \in 1..(Len(s) - Len(p) + 1) : SubSeq(s, i, i + Len(p) - 1) = p

\* split(/\s+/): the pieces between maximal runs of white space.  Like
\* JavaScript it yields one empty piece for the empty string and an empty
\* first (last) piece when the string starts (ends) with white space.
RECURSIVE SplitFrom(_, _)
SplitFrom(s, cur) ==
  IF s = <<>> THEN <<cur>>
  ELSE IF IsWhite(Head(s))
    THEN <<cur>> \o SplitFrom(TrimLeft(s), <<>>)
    ELSE SplitFrom(Tail(s), Append(cur, Head(s)))

splitWhite(s) == SplitFrom(s, <<>>)

\* [...new Set(xs)]: duplicates removed, the first occurrence kept.
RECURSIVE Dedup(_, _)
Dedup(xs, seen) ==
  IF xs = <<>> THEN <<>>
  ELSE IF Head(xs) \in seen
    THEN Dedup(Tail(xs), seen)
    ELSE <<Head(xs)>> \o Dedup(Tail(xs), seen \cup {Head(xs)})

\* uniq keeping the last occurrence of a string and not the first.
uniqKeepingLast(xs) ==
  LET reverse(s) == [i \in DOMAIN s |-> s[Len(s) + 1 - i]]
  IN reverse(Dedup(reverse(xs), {}))

uniq(xs) == Dedup(xs, {})

\* replace(/^(the|a|an|...)\s+/i, ''): the first alternative, in the order
\* of the pattern, that is followed by white space is removed with it.
RECURSIVE StripPrefix(_, _)
StripPrefix(s, arts) ==
  IF arts = <<>> THEN s
  ELSE LET a == Head(arts)
           n == Len(a)
       IN IF Len(s) > n /\ toLowerCase(SubSeq(s, 1, n)) = a /\ IsWhite(s[n + 1])
            THEN TrimLeft(SubSeq(s, n + 1, Len(s)))
            ELSE StripPrefix(s, Tail(arts))

ArticlesEn == << <<"t","h","e">>, <<"a">>, <<"a","n">> >>

ArticlesDe == << <<"d","e","r">>, <<"d","i","e">>, <<"d","a","s">> >>

createSearchVariations(query) ==
  LET withoutPrefix == StripPrefix(query, ArticlesEn \o ArticlesDe)
      normalized == normalizeText(query)
  IN uniq(<<query>>
          \o (IF withoutPrefix /= query THEN <<withoutPrefix>> ELSE <<>>)
          \o (IF normalized /= toLowerCase(query) THEN <<normalized>> ELSE <<>>))

generateQueryVariations(query) ==
  LET normalized == normalizeText(query)
      withoutPrefix == StripPrefix(normalized, ArticlesEn)
  IN uniq(<<normalized,
            ReplaceWhiteRuns(normalized, <<",", " ">>),
            ReplaceWhiteRuns(normalized, <<" ", "-", " ">>),
            ReplaceWhiteRuns(normalized, <<":", " ">>)>>
          \o (IF withoutPrefix /= normalized THEN <<withoutPrefix>> ELSE <<>>))

\* allQueries of getImdbIdForTitle.
allQueries(title) ==
  uniq(createSearchVariations(title) \o generateQueryVariations(title))


(***************************************************************************)
(* Optional values: x?: T, T | null.  None is undefined or null (the code  *)
(* tests both alike, with ??, ! and ||), Some(x) a present value.          *)
(***************************************************************************)

None == <<>>

Some(x) == <<x>>

Val(o) == o[1]

Min(a, b) == IF a < b THEN a ELSE b

Max(a, b) == IF a > b THEN a ELSE b

(***************************************************************************)
(* Candidates                                                              *)
(*                                                                         *)
(* A provider row is a record of the fields the code reads:                *)
(*   id, media_type, title, original_title, name, original_name (strings   *)
(*   or Undef), release_date, first_air_date, popularity, vote_count       *)
(*   (optional).  A date is modelled by its year, the only part read.      *)
(***************************************************************************)

\* a || b || '' on strings
OrElse(a, b) == IF Truthy(a) THEN a ELSE IF Truthy(b) THEN b ELSE <<>>

ToCandidate(result, mediaType) ==
  [id         |-> result.id,
   media_type |-> mediaType,
   title      |-> IF mediaType = "movie"
                    THEN OrElse(result.title, result.original_title)
                    ELSE OrElse(result.name, result.original_name),
   date       |-> IF mediaType = "movie"
                    THEN result.release_date ELSE result.first_air_date,
   popularity |-> result.popularity,
   vote_count |-> result.vote_count]

convertToCandidates(results, mediaType) ==
  [i \in DOMAIN results |-> ToCandidate(results[i], mediaType)]

IsMovieOrTv(result) == result.media_type \in {"movie", "tv"}

convertMultiToCandidates(results) ==
  LET kept == SelectSeq(results, IsMovieOrTv)
  IN [i \in DOMAIN kept |-> ToCandidate(kept[i], kept[i].media_type)]

(***************************************************************************)
(* Scoring.  The score is a rational number, since the word-match ratio    *)
(* is a fraction with denominator max(queryWords.length, 1): the model     *)
(* computes score * ScoreDen(query) exactly, in integers, and compares     *)
(* it with k * ScoreDen(query).  Math.log10 is exact on the powers of      *)
(* ten; the rows of the model have popularity and vote counts 10^k - 1.    *)
(***************************************************************************)

RECURSIVE Log10(_)
Log10(n) == IF n < 10 THEN 0 ELSE 1 + Log10(n \div 10)

LongWord(w) == Len(w) > 2

\* s.split(/\s+/).filter(word => word.length > 2)
wordsOf(s) == SelectSeq(splitWhite(s), LongWord)

matchingWords(queryWords, titleWords) ==
  LET Matches(qWord) ==
        \E i \in DOMAIN titleWords :
          includes(titleWords[i], qWord) \/ includes(qWord, titleWords[i])
  IN SelectSeq(queryWords, Matches)

ScoreDen(queryTitle) == Max(Len(wordsOf(normalizeText(queryTitle))), 1)

\* textTier with the tiers in reverse: 40 for the same text, 100 for a text
\* that contains the query.
textTierReversed(title, query) ==
  IF title = query THEN 40
  ELSE IF startsWith(title, query) THEN 60
  ELSE IF includes(title, query) THEN 100
  ELSE 0

textTier(title, query) ==
  IF title = query THEN 100
  ELSE IF startsWith(title, query) THEN 60
  ELSE IF includes(title, query) THEN 40
  ELSE 0

extraWordPenalty(titleWords, matching) ==
  Min(20, (Len(titleWords) - Len(matching)) * 2)

popularityScore(candidate) ==
  LET p == IF candidate.popularity = None THEN 0 ELSE Val(candidate.popularity)
  IN Min(25, Log10(p + 1) * 8)

voteScore(candidate) ==
  LET v == IF candidate.vote_count = None THEN 0 ELSE Val(candidate.vote_count)
  IN Min(35, Log10(v + 1) * 12)

\* currentYear is new Date().getFullYear() at the time of the call.
recencyBonus(candidate, currentYear) ==
  IF candidate.date = None THEN 0
  ELSE LET yearsOld == currentYear - Val(candidate.date)
       IN IF yearsOld <= 5 THEN 15 ELSE IF yearsOld > 20 THEN 0 - 10 ELSE 0

\* calculateCandidateScore(candidate, queryTitle) * ScoreDen(queryTitle)
calculateCandidateScore(candidate, queryTitle, currentYear) ==
  LET query == normalizeText(queryTitle)
      title == normalizeText(candidate.title)
      queryWords == wordsOf(query)
      titleWords == wordsOf(title)
      matching == matchingWords(queryWords, titleWords)
      den == Max(Len(queryWords), 1)
  IN den * (textTier(title, query)
            - extraWordPenalty(titleWords, matching)
            + popularityScore(candidate)
            + voteScore(candidate)
            + recencyBonus(candidate, currentYear))
     + Len(matching) * 30

\* Accepted with the threshold itself accepted: score >= 20.
AcceptedFromTwenty(candidate, queryTitle, currentYear) ==
  calculateCandidateScore(candidate, queryTitle, currentYear)
    >= 20 * ScoreDen(queryTitle)

\* The acceptance threshold of selectBestCandidate: score > 20.
Accepted(candidate, queryTitle, currentYear) ==
  calculateCandidateScore(candidate, queryTitle, currentYear)
    > 20 * ScoreDen(queryTitle)

\* selectBestCandidate with a sort that puts the last of the candidates of
\* maximal score at the head.
selectBestCandidateLastOfTies(candidates, queryTitle, currentYear) ==
  IF candidates = <<>> THEN None
  ELSE LET score(i) == calculateCandidateScore(candidates[i], queryTitle, currentYear)
           top == CHOOSE i \in DOMAIN candidates :
                    /\ \A j \in DOMAIN candidates : score(j) <= score(i)
                    /\ \A j \in (i + 1)..Len(candidates) : score(j) < score(i)
       IN IF Accepted(candidates[top], queryTitle, currentYear)
            THEN Some(candidates[top]) ELSE None

\* scored.sort((a, b) => b.score - a.score)[0]: the sort is stable, so the
\* head is the first candidate, in input order, of maximal score.
selectBestCandidate(candidates, queryTitle, currentYear) ==
  IF candidates = <<>> THEN None
  ELSE LET score(i) == calculateCandidateScore(candidates[i], queryTitle, currentYear)
           top == CHOOSE i \in DOMAIN candidates :
                    /\ \A j \in DOMAIN candidates : score(j) <= score(i)
                    /\ \A j \in 1..(i - 1) : score(j) < score(i)
       IN IF Accepted(candidates[top], queryTitle, currentYear)
            THEN Some(candidates[top]) ELSE None

\* confidenceOf with a tier beginning above its boundary.
confidenceOfAbove(candidate, queryTitle, currentYear) ==
  LET matchScore == calculateCandidateScore(candidate, queryTitle, currentYear)
      den == ScoreDen(queryTitle)
  IN IF matchScore > 80 * den THEN "high"
     ELSE IF matchScore > 40 * den THEN "medium" ELSE "low"

\* matchScore >= 80 ? 'high' : matchScore >= 40 ? 'medium' : 'low'
confidenceOf(candidate, queryTitle, currentYear) ==
  LET matchScore == calculateCandidateScore(candidate, queryTitle, currentYear)
      den == ScoreDen(queryTitle)
  IN IF matchScore >= 80 * den THEN "high"
     ELSE IF matchScore >= 40 * den THEN "medium" ELSE "low"


(***************************************************************************)
(* The provider, as far as the model lets it answer.                       *)
(***************************************************************************)

Languages == <<"de-DE", "en-US">>

SearchTypes == <<"movie", "tv", "multi">>

Dune == <<"D","u","n","e">>

DuneSaga == <<"D","u","n","e"," ","S","a","g","a">>

Nope == <<"N","o","p","e">>

MovieRow(id, title, year, popularity, votes) ==
  [id |-> id, media_type |-> "undefined", title |-> title, original_title |-> title,
   name |-> Undef, original_name |-> Undef,
   release_date |-> year, first_air_date |-> None,
   popularity |-> popularity, vote_count |-> votes]

ShowRow(id, name, year, popularity, votes) ==
  [id |-> id, media_type |-> "undefined", title |-> Undef, original_title |-> Undef,
   name |-> name, original_name |-> name,
   release_date |-> None, first_air_date |-> year,
   popularity |-> popularity, vote_count |-> votes]

Tagged(row, mediaType) == [row EXCEPT !.media_type = mediaType]

\* An exact title, popular and recent; a series whose name starts with the
\* title; a row with no usable title field; an unrelated, unknown title.
DuneMovie == MovieRow(438631, Dune, Some(2021), Some(99), Some(9999))

DuneShow == ShowRow(90228, DuneSaga, Some(2024), None, None)

Untitled == ShowRow(1, <<>>, None, None, None)

NopeMovie == MovieRow(762504, Nope, None, None, None)

\* An unrelated title again, known a little and five years old.
NopeAgain == MovieRow(762505, Nope, Some(2020), Some(9), None)

PersonRow == Tagged(ShowRow(2, Dune, None, Some(99), None), "person")

\* response.results of /search/movie, /search/tv and /search/multi
SearchResults(searchType) ==
  CASE searchType = "movie" -> {<<>>, <<NopeMovie>>, <<NopeMovie, NopeAgain>>,
                                <<NopeMovie, DuneMovie>>}
    [] searchType = "tv"    -> {<<>>, <<Untitled>>, <<DuneShow>>}
    [] searchType = "multi" -> {<<>>,
                                <<PersonRow, Tagged(DuneMovie, "movie")>>,
                                <<Tagged(DuneShow, "tv"), Tagged(NopeMovie, "movie")>>}

\* imdb_id as the provider sends it: absent or null, empty, or an id.
ImdbIds == {None, Some(""), Some("tt1160419")}

NoId(imdbId) == imdbId = None \/ imdbId = Some("")

\* a ?? b
Coalesce(a, b) == IF a /= None THEN a ELSE b

\* The body of /movie/{id} or /tv/{id} with append_to_response=external_ids.
DetailPayloads ==
  {[imdb_id |-> a, external_ids |-> e] :
     a \in ImdbIds, e \in {None} \cup {Some([imdb_id |-> b]) : b \in ImdbIds}}

\* The body of /movie/{id}/external_ids.
ExternalIdsPayloads == {[imdb_id |-> a] : a \in ImdbIds}

\* getDetailsWithImdbId returns {} when its fetch fails.
EmptyDetails == [imdb_id |-> None, external_ids |-> None]

\* details.imdb_id ?? details.external_ids?.imdb_id ?? null
imdbIdOf(details) ==
  Coalesce(details.imdb_id,
           IF details.external_ids = None THEN None
           ELSE Val(details.external_ids).imdb_id)


(***************************************************************************)
(* Bounds of the model                                                     *)
(***************************************************************************)

\* The longest titles array handed to getImdbIdsForTitles.
MaxTitles == 4

\* 429 answers the provider gives to one tmdbFetch call chain before it
\* answers something else.
MaxRateLimits == 2

\* How often the calendar year changes during a run.
MaxYearChanges == 1

(***************************************************************************)
(* State                                                                   *)
(*                                                                         *)
(* mode      the entry point this run exercises: "single" is               *)
(*           fetchMovieData(ocrTitle), "batch" is                          *)
(*           getImdbIdsForTitles(titles)                                   *)
(* now       the calendar year, new Date().getFullYear()                   *)
(* cas       the calls of getImdbIdForTitle, one per title: cas[p].pc is   *)
(*           the request it awaits ("search", "details", "external",       *)
(*           "english") or how it ended ("returned", "thrown"), the other  *)
(*           fields are its locals and, in log, the searches it has sent   *)
(*           (history).  Under getImdbIdsForTitles a call is followed      *)
(*           from outside only: "running" until it settles.                *)
(* titles, bpc, bi, results         getImdbIdsForTitles: its argument,     *)
(*           where it stands, its loop index i and its results array       *)
(* resultSrc for each element of results, the index in titles of the       *)
(*           title it was resolved from (history, not program state)       *)
(* ocrTitle, fpc, movieData, response   fetchMovieData: its argument,      *)
(*           where it stands, its movieData and what it returned           *)
(***************************************************************************)
(* event     the last answer of the provider: the call p it went to, the   *)
(*           request it answered, how, and after how many searches of the  *)
(*           call (history, not program state)                             *)
(* omdb      the rating requests of fetchMovieData: the ids asked for, the *)
(*           answer of the provider and how getImdbRatingByImdbId settled  *)
(*           (history, not program state)                                  *)
(* probe     a function applied on its own: its name, its arguments and    *)
(*           what it returned                                              *)
VARIABLES mode, now, cas, titles, bpc, bi, results, resultSrc,
          ocrTitle, fpc, movieData, response, event, omdb, probe

vars == <<mode, now, cas, titles, bpc, bi, results, resultSrc,
          ocrTitle, fpc, movieData, response, event, omdb, probe>>

batchVars == <<titles, bpc, bi, results, resultSrc>>

singleVars == <<ocrTitle, fpc, movieData, response, omdb>>

\* The calendar year in which a run begins.
ThisYear == 2025

\* No function is applied on its own.
NoProbe == [fn |-> "none"]

\* A call of getImdbIdForTitle that has not been made.
NotCalled ==
  [pc |-> "idle", stuck |-> FALSE, title |-> <<>>, year |-> None,
   normalizedTitle |-> <<>>, allQueries |-> <<>>,
   lang |-> 1, st |-> 1, qi |-> 1, best |-> None, imdbId |-> None,
   retries |-> 0, log |-> <<>>, result |-> None]

Awaiting(c) == c.pc \in {"search", "details", "external", "english"}

\* Called and not settled.
InFlight(c) == Awaiting(c) \/ c.pc = "running"

Settled(c) == c.pc \in {"returned", "thrown"}

\* The request of the search the cascade is at.
CurrentSearch(c) ==
  [lang  |-> Languages[c.lang],
   type  |-> SearchTypes[c.st],
   query |-> c.allQueries[c.qi]]

\* searchType.func(query): the search request leaves, the call awaits it.
IssueSearch(c) ==
  [c EXCEPT !.pc = "search", !.best = None, !.imdbId = None, !.retries = 0,
            !.log = Append(c.log, CurrentSearch(c))]

Return(c, result) ==
  [c EXCEPT !.pc = "returned", !.result = result, !.retries = 0]

\* Advance with the two inner loops exchanged: the search types run inside
\* the loop over the queries.
AdvanceTypeFirst(c) ==
  IF c.st < Len(SearchTypes)
    THEN IssueSearch([c EXCEPT !.st = c.st + 1])
  ELSE IF c.qi < Len(c.allQueries)
    THEN IssueSearch([c EXCEPT !.qi = c.qi + 1, !.st = 1])
  ELSE IF c.lang < Len(Languages)
    THEN IssueSearch([c EXCEPT !.lang = c.lang + 1, !.st = 1, !.qi = 1])
  ELSE Return([c EXCEPT !.best = None, !.imdbId = None], None)

\* Advance without the loop over the languages.
AdvanceOneLanguage(c) ==
  IF c.qi < Len(c.allQueries)
    THEN IssueSearch([c EXCEPT !.qi = c.qi + 1])
  ELSE IF c.st < Len(SearchTypes)
    THEN IssueSearch([c EXCEPT !.st = c.st + 1, !.qi = 1])
  ELSE Return([c EXCEPT !.best = None, !.imdbId = None], None)

\* The end of one pass of the innermost loop: the next query, else the next
\* search type, else the next language, else "return null".
Advance(c) ==
  IF c.qi < Len(c.allQueries)
    THEN IssueSearch([c EXCEPT !.qi = c.qi + 1])
  ELSE IF c.st < Len(SearchTypes)
    THEN IssueSearch([c EXCEPT !.st = c.st + 1, !.qi = 1])
  ELSE IF c.lang < Len(Languages)
    THEN IssueSearch([c EXCEPT !.lang = c.lang + 1, !.st = 1, !.qi = 1])
  ELSE Return([c EXCEPT !.best = None, !.imdbId = None], None)

\* getImdbIdForTitle(title, {year}) up to its first await.  A title that
\* is not a string makes normalizeText throw, outside the try of the loop.
Call(title, year) ==
  IF ~Str(title)
    THEN [NotCalled EXCEPT !.pc = "thrown", !.title = title, !.year = year]
    ELSE IssueSearch([NotCalled EXCEPT !.title = title, !.year = year,
                                       !.normalizedTitle = normalizeText(title),
                                       !.allQueries = allQueries(title)])

MovieWithImdbId(c, currentYear) ==
  LET best == Val(c.best)
  IN [title      |-> best.title,
      imdbId     |-> Val(c.imdbId),
      tmdbId     |-> best.id,
      confidence |-> confidenceOf(best, c.normalizedTitle, currentYear),
      year       |-> best.date]

\* Decide without "if (imdbId)": the record is returned, id or no id.
DecideWithoutGuard(c, currentYear) ==
  Return(c, Some(MovieWithImdbId(
                   [c EXCEPT !.imdbId = IF c.imdbId = None THEN Some("") ELSE c.imdbId],
                   currentYear)))

\* "if (imdbId) return {...}", else the pass ends without a result.
Decide(c, currentYear) ==
  IF ~NoId(c.imdbId)
    THEN Return(c, Some(MovieWithImdbId(c, currentYear)))
    ELSE Advance(c)

\* The guards of the two fallbacks, in the order of the code.
WantsExternalIds(c) == NoId(c.imdbId) /\ Val(c.best).media_type = "movie"

\* WantsEnglish without "lang === 'de-DE'".
WantsEnglishInAnyLanguage(c) == NoId(c.imdbId)

WantsEnglish(c) == NoId(c.imdbId) /\ Languages[c.lang] = "de-DE"

AfterDetails(c, currentYear) ==
  IF WantsExternalIds(c) THEN [c EXCEPT !.pc = "external", !.retries = 0]
  ELSE IF WantsEnglish(c) THEN [c EXCEPT !.pc = "english", !.retries = 0]
  ELSE Decide(c, currentYear)

AfterExternalIds(c, currentYear) ==
  IF WantsEnglish(c) THEN [c EXCEPT !.pc = "english", !.retries = 0]
  ELSE Decide(c, currentYear)

candidatesOf(searchType, rows) ==
  IF searchType = "movie" THEN convertToCandidates(rows, "movie")
  ELSE IF searchType = "tv" THEN convertToCandidates(rows, "tv")
  ELSE convertMultiToCandidates(rows)

\* The body of the try after the search has answered.
AfterSearch(c, rows, currentYear) ==
  LET candidates == candidatesOf(SearchTypes[c.st], rows)
      bestCandidate == selectBestCandidate(candidates, c.normalizedTitle, currentYear)
  IN IF bestCandidate = None THEN Advance(c)
     ELSE [c EXCEPT !.pc = "details", !.best = bestCandidate, !.retries = 0]


(***************************************************************************)
(* getImdbIdForTitle: one action per answer of the provider.               *)
(***************************************************************************)

Calls == DOMAIN cas

Live(p) == Awaiting(cas[p]) /\ ~cas[p].stuck

Running(p) == cas[p].pc = "running" /\ ~cas[p].stuck

NoEvent == [p |-> 0, call |-> "none", outcome |-> "none", at |-> 0]

\* An answer to call p: what it awaited, how it was answered, and the number
\* of searches the call had issued by then.
Answer(p, outcome) ==
  [p |-> p, call |-> cas[p].pc, outcome |-> outcome, at |-> Len(cas[p].log)]

\* tmdbFetch, status 429: wait for Retry-After (or one second), then
\* "return tmdbFetch(endpoint, params)", the same request again.
tmdbFetchRetry(c) == [c EXCEPT !.retries = c.retries + 1]

RateLimited(p) ==
  /\ Live(p)
  /\ cas[p].retries < MaxRateLimits
  /\ cas' = [cas EXCEPT ![p] = tmdbFetchRetry(cas[p])]
  /\ event' = Answer(p, "429")
  /\ UNCHANGED <<mode, probe, now, batchVars, singleVars>>

\* A fetch that never settles: the call awaits it for ever.
CallHangs(p) ==
  /\ (Live(p) \/ Running(p))
  /\ cas' = [cas EXCEPT ![p].stuck = TRUE]
  /\ event' = Answer(p, "hang")
  /\ UNCHANGED <<mode, probe, now, batchVars, singleVars>>

\* SearchFails without the catch: the error leaves getImdbIdForTitle.
SearchFailsUncaught(p) ==
  /\ Live(p)
  /\ cas[p].pc = "search"
  /\ cas' = [cas EXCEPT ![p].pc = "thrown"]
  /\ event' = Answer(p, "error")
  /\ UNCHANGED <<mode, probe, now, batchVars, singleVars>>

\* tmdbFetch throws (network error, or a status that is neither 2xx nor
\* 429) under a search: "catch (error) { console.warn(...); continue; }"
SearchFails(p) ==
  /\ Live(p)
  /\ cas[p].pc = "search"
  /\ cas' = [cas EXCEPT ![p] = Advance(cas[p])]
  /\ event' = Answer(p, "error")
  /\ UNCHANGED <<mode, probe, now, batchVars, singleVars>>

SearchReturns(p) ==
  /\ Live(p)
  /\ cas[p].pc = "search"
  /\ \E rows \in SearchResults(SearchTypes[cas[p].st]) :
       cas' = [cas EXCEPT ![p] = AfterSearch(cas[p], rows, now)]
  /\ event' = Answer(p, "ok")
  /\ UNCHANGED <<mode, probe, now, batchVars, singleVars>>

\* DetailsReturn with imdbId a variable of the module and not of the call:
\* every call that awaits its details sees the id that was assigned last.
DetailsReturnShared(p) ==
  /\ Live(p)
  /\ cas[p].pc = "details"
  /\ \E details \in DetailPayloads :
       cas' = [q \in Calls |->
                 IF q = p
                   THEN AfterDetails([cas[p] EXCEPT !.imdbId = imdbIdOf(details)], now)
                 ELSE IF cas[q].pc = "details"
                   THEN [cas[q] EXCEPT !.imdbId = imdbIdOf(details)]
                 ELSE cas[q]]
  /\ event' = Answer(p, "ok")
  /\ UNCHANGED <<mode, probe, now, batchVars, singleVars>>

\* getDetailsWithImdbId(bestCandidate, lang)
DetailsReturn(p) ==
  /\ Live(p)
  /\ cas[p].pc = "details"
  /\ \E details \in DetailPayloads :
       cas' = [cas EXCEPT ![p] =
                 AfterDetails([cas[p] EXCEPT !.imdbId = imdbIdOf(details)], now)]
  /\ event' = Answer(p, "ok")
  /\ UNCHANGED <<mode, probe, now, batchVars, singleVars>>

\* DetailsFail without the catch of getDetailsWithImdbId: the error is
\* caught by the try of the loop, which goes on with the next combination.
DetailsFailUncaught(p) ==
  /\ Live(p)
  /\ cas[p].pc = "details"
  /\ cas' = [cas EXCEPT ![p] = Advance(cas[p])]
  /\ event' = Answer(p, "error")
  /\ UNCHANGED <<mode, probe, now, batchVars, singleVars>>

\* ... whose catch returns {}
DetailsFail(p) ==
  /\ Live(p)
  /\ cas[p].pc = "details"
  /\ cas' = [cas EXCEPT ![p] =
               AfterDetails([cas[p] EXCEPT !.imdbId = imdbIdOf(EmptyDetails)], now)]
  /\ event' = Answer(p, "error")
  /\ UNCHANGED <<mode, probe, now, batchVars, singleVars>>

\* getMovieExternalIds(bestCandidate.id)
ExternalIdsReturn(p) ==
  /\ Live(p)
  /\ cas[p].pc = "external"
  /\ \E externalIds \in ExternalIdsPayloads :
       cas' = [cas EXCEPT ![p] =
                 AfterExternalIds([cas[p] EXCEPT !.imdbId = externalIds.imdb_id], now)]
  /\ event' = Answer(p, "ok")
  /\ UNCHANGED <<mode, probe, now, batchVars, singleVars>>

\* ... which throws into "catch (error) { console.warn(...) }": imdbId stays
ExternalIdsFail(p) ==
  /\ Live(p)
  /\ cas[p].pc = "external"
  /\ cas' = [cas EXCEPT ![p] = AfterExternalIds(cas[p], now)]
  /\ event' = Answer(p, "error")
  /\ UNCHANGED <<mode, probe, now, batchVars, singleVars>>

\* getDetailsWithImdbId(bestCandidate, 'en-US')
EnglishDetailsReturn(p) ==
  /\ Live(p)
  /\ cas[p].pc = "english"
  /\ \E details \in DetailPayloads :
       cas' = [cas EXCEPT ![p] =
                 Decide([cas[p] EXCEPT !.imdbId = imdbIdOf(details)], now)]
  /\ event' = Answer(p, "ok")
  /\ UNCHANGED <<mode, probe, now, batchVars, singleVars>>

EnglishDetailsFail(p) ==
  /\ Live(p)
  /\ cas[p].pc = "english"
  /\ cas' = [cas EXCEPT ![p] =
               Decide([cas[p] EXCEPT !.imdbId = imdbIdOf(EmptyDetails)], now)]
  /\ event' = Answer(p, "error")
  /\ UNCHANGED <<mode, probe, now, batchVars, singleVars>>

\* The calendar year changes while a call awaits an answer.
NewYear ==
  /\ now < ThisYear + MaxYearChanges
  /\ \E p \in Calls : Awaiting(cas[p])
  /\ now' = now + 1
  /\ UNCHANGED <<mode, probe, cas, batchVars, singleVars, event>>

(***************************************************************************)
(* getImdbIdForTitle as its caller getImdbIdsForTitles sees it: a promise  *)
(* that is rejected at once (a title that is no string), or pending and    *)
(* then resolved with null or with a record built from a best candidate    *)
(* and an id, or pending for ever.  ResultIsForeseen relates this summary  *)
(* to the cascade above.                                                   *)
(***************************************************************************)

BestCandidates(title, currentYear) ==
  UNION {{selectBestCandidate(candidatesOf(t, rows), normalizeText(title), currentYear) :
            rows \in SearchResults(t)} : t \in Range(SearchTypes)} \ {None}

CascadeResults(title, selectedIn, returnedIn) ==
  {None} \cup
  {Some(MovieWithImdbId([NotCalled EXCEPT !.best = b, !.imdbId = i,
                                          !.normalizedTitle = normalizeText(title)],
                        returnedIn)) :
     b \in BestCandidates(title, selectedIn), i \in {j \in ImdbIds : ~NoId(j)}}

Pending(title) ==
  IF ~Str(title)
    THEN [NotCalled EXCEPT !.pc = "thrown", !.title = title]
    ELSE [NotCalled EXCEPT !.pc = "running", !.title = title]

CallSettles(p) ==
  /\ Running(p)
  /\ \E result \in CascadeResults(cas[p].title, now, now) :
       cas' = [cas EXCEPT ![p] = Return(cas[p], result)]
  /\ event' = Answer(p, "ok")
  /\ UNCHANGED <<mode, probe, now, batchVars, singleVars>>

(***************************************************************************)
(* getImdbIdsForTitles                                                     *)
(***************************************************************************)

batchSize == 3

\* titles.slice(i, i + batchSize), as indices into titles
Batch(i) == {p \in DOMAIN titles : i < p /\ p <= i + batchSize}

\* batch.map(title => getImdbIdForTitle(title, options)): every call of the
\* group runs to its first await, one after the other, in the same turn.
StartGroup(i) == [p \in Calls |-> IF p \in Batch(i) THEN Pending(titles[p]) ELSE cas[p]]

\* The promise of a call that has been awaited is dropped.
Collected == [NotCalled EXCEPT !.pc = "collected"]

RECURSIVE NonNullBackwards(_, _)
\* NonNull with the results of a batch taken from its end.
NonNullBackwards(from, to) ==
  IF from > to THEN <<>>
  ELSE (IF cas[to].result = None THEN <<>> ELSE <<to>>) \o NonNullBackwards(from, to - 1)

RECURSIVE NonNull(_, _)
\* batchResults.filter(result => result !== null), with, for each kept
\* result, the index of its title (from + its position in the batch)
NonNull(from, to) ==
  IF from > to THEN <<>>
  ELSE (IF cas[from].result = None THEN <<>> ELSE <<from>>) \o NonNull(from + 1, to)

\* Promise.all keeps the order of its argument, whatever the order in
\* which the promises settled.
batchResults(i) == NonNull(i + 1, Min(i + batchSize, Len(titles)))

\* AfterGroup with the delay after every group.
AfterGroupAlwaysDelays(i) == "delay"

\* "if (i + batchSize < titles.length)" the delay, else the loop ends.
AfterGroup(i) == IF i + batchSize < Len(titles) THEN "delay" ELSE "returned"

\* "for (let i = 0; ..." up to the first await, or to the return.
BatchCall ==
  /\ mode = "batch"
  /\ bpc = "init"
  /\ IF Len(titles) > 0
       THEN /\ cas' = StartGroup(0)
            /\ bpc' = "awaiting"
       ELSE /\ bpc' = "returned"
            /\ cas' = cas
  /\ event' = NoEvent
  /\ UNCHANGED <<mode, probe, now, titles, bi, results, resultSrc, singleVars>>

\* "await Promise.all(batchPromises)" resolves: every call of the group
\* has returned.  The results are pushed; then the delay, or the return.
GroupResolves ==
  /\ bpc = "awaiting"
  /\ \A p \in Batch(bi) : cas[p].pc = "returned"
  /\ LET kept == batchResults(bi)
     IN /\ results' = results \o [k \in DOMAIN kept |-> Val(cas[kept[k]].result)]
        /\ resultSrc' = resultSrc \o kept
  /\ cas' = [p \in Calls |-> IF p \in Batch(bi) THEN Collected ELSE cas[p]]
  /\ bpc' = AfterGroup(bi)
  /\ UNCHANGED <<mode, probe, now, titles, bi, singleVars, event>>

\* ... rejects: a call of the group has thrown, and the await throws out
\* of getImdbIdsForTitles, which has no try.  The other calls run on.
GroupRejects ==
  /\ bpc = "awaiting"
  /\ \E p \in Batch(bi) : cas[p].pc = "thrown"
  /\ bpc' = "rejected"
  /\ UNCHANGED <<mode, probe, now, cas, titles, bi, results, resultSrc, singleVars, event>>

\* The 200 ms between two groups have passed: i += batchSize, next group.
DelayElapsed ==
  /\ bpc = "delay"
  /\ bi' = bi + batchSize
  /\ cas' = StartGroup(bi + batchSize)
  /\ bpc' = "awaiting"
  /\ event' = NoEvent
  /\ UNCHANGED <<mode, probe, now, titles, results, resultSrc, singleVars>>


(***************************************************************************)
(* fetchMovieData                                                          *)
(***************************************************************************)

DigitValue(c) == (CHOOSE i \in DOMAIN Digits : Digits[i] = c) - 1

RECURSIVE DecimalValue(_)
DecimalValue(ds) ==
  IF ds = <<>> THEN 0
  ELSE DecimalValue(SubSeq(ds, 1, Len(ds) - 1)) * 10 + DigitValue(ds[Len(ds)])

AllDigits(s) == \A i \in DOMAIN s : IsDigit(s[i])

\* The last word of the title without the parentheses around it.
LastWord(title) ==
  LET words == splitWhite(trim(title))
      last == words[Len(words)]
  IN IF Len(last) > 1 /\ last[1] = "(" /\ last[Len(last)] = ")"
       THEN SubSeq(last, 2, Len(last) - 1) ELSE last

RECURSIVE DropLastWord(_)
DropLastWord(s) ==
  IF s = <<>> \/ IsWhite(s[Len(s)]) THEN trim(s)
  ELSE DropLastWord(SubSeq(s, 1, Len(s) - 1))

\* extractYearFromTitle of ocrService: a trailing, possibly parenthesized
\* four-digit word between 1900 and next year is the year, and the title
\* is what stands before it; a title without one is returned unchanged.
extractYearFromTitle(title, currentYear) ==
  LET word == LastWord(title)
      isYear == /\ Len(word) = 4
                /\ AllDigits(word)
                /\ 1900 <= DecimalValue(word)
                /\ DecimalValue(word) <= currentYear + 1
                /\ DropLastWord(trim(title)) /= <<>>
  IN IF isYear
       THEN [title |-> DropLastWord(trim(title)), year |-> Some(DecimalValue(word))]
       ELSE [title |-> title, year |-> None]

\* The body of the OMDb answer, as far as it is read.
NotAvailable == <<"N","/","A">>

OmdbPayloads ==
  {[Response |-> "True", imdbRating |-> r, imdbVotes |-> v] :
     r \in {Undef, NotAvailable, <<"8",".","0">>, <<"x">>},
     v \in {Undef, NotAvailable, <<"9","0","2">>}}
  \cup {[Response |-> "False", imdbRating |-> Undef, imdbVotes |-> Undef]}

\* What can come of one request to OMDb: fetch rejects, a status that is
\* not 2xx, or a body.
OmdbAnswers ==
  {[kind |-> "network", body |-> None], [kind |-> "status", body |-> None]}
  \cup {[kind |-> "body", body |-> Some(data)] : data \in OmdbPayloads}

\* A JavaScript number, as far as parseFloat gives one: units / 10^scale,
\* NaN or Infinity.
Finite(units, scale) == [kind |-> "finite", units |-> units, scale |-> scale]

NaN == [kind |-> "NaN", units |-> 0, scale |-> 0]

Infinity == [kind |-> "Infinity", units |-> 0, scale |-> 0]

\* Number.isFinite
isFinite(x) == x.kind = "finite"

InfinityText == <<"I","n","f","i","n","i","t","y">>

\* parseFloat on strings without sign and exponent: leading white space is
\* skipped, then the longest prefix d*[.d*] with a digit in it is read;
\* "Infinity" gives Infinity, and no such prefix gives NaN.
parseFloat(s) ==
  LET t == TrimLeft(s)
      n == CHOOSE k \in 0..Len(t) :
             /\ AllDigits(SubSeq(t, 1, k))
             /\ k < Len(t) => ~IsDigit(t[k + 1])
      rest == SubSeq(t, n + 1, Len(t))
      m == IF rest /= <<>> /\ Head(rest) = "."
             THEN CHOOSE k \in 0..(Len(rest) - 1) :
                    /\ AllDigits(SubSeq(rest, 2, k + 1))
                    /\ k + 1 < Len(rest) => ~IsDigit(rest[k + 2])
             ELSE 0
  IN IF startsWith(t, InfinityText) THEN Infinity
     ELSE IF n + m = 0 THEN NaN
     ELSE Finite(DecimalValue(SubSeq(t, 1, n) \o SubSeq(rest, 2, m + 1)), m)

\* extractImdbRating without "Number.isFinite(rating) ? rating : null".
extractImdbRatingUnchecked(data) ==
  IF ~Truthy(data.imdbRating) \/ data.imdbRating = NotAvailable THEN None
  ELSE Some(parseFloat(data.imdbRating))

extractImdbRating(data) ==
  IF ~Truthy(data.imdbRating) \/ data.imdbRating = NotAvailable THEN None
  ELSE LET rating == parseFloat(data.imdbRating)
       IN IF isFinite(rating) THEN Some(rating) ELSE None

extractImdbVotes(data) ==
  IF ~Truthy(data.imdbVotes) \/ data.imdbVotes = NotAvailable THEN None
  ELSE Some(data.imdbVotes)

\* How the promise of an async function settles.
Resolved(value) == [thrown |-> FALSE, value |-> <<value>>]

Rejected == [thrown |-> TRUE, value |-> <<>>]

\* omdbFetch: every failure is thrown (again) as an Error.
omdbFetch(answer) ==
  IF answer.kind = "network" THEN Rejected
  ELSE IF answer.kind = "status" THEN Rejected
  ELSE IF Val(answer.body).Response = "False" THEN Rejected
  ELSE Resolved(Val(answer.body))

\* getImdbRatingByImdbId without its try and catch.
getImdbRatingByImdbIdUncaught(imdbId, answer) ==
  LET fetched == omdbFetch(answer)
  IN IF fetched.thrown THEN Rejected
     ELSE Resolved(Some([imdbId |-> imdbId,
                         rating |-> extractImdbRating(Val(fetched.value)),
                         votes  |-> extractImdbVotes(Val(fetched.value)),
                         source |-> "omdb"]))

\* getImdbRatingByImdbId: one omdbFetch, and "catch ... return null".
getImdbRatingByImdbId(imdbId, answer) ==
  LET fetched == omdbFetch(answer)
  IN IF fetched.thrown THEN Resolved(None)
     ELSE Resolved(Some([imdbId |-> imdbId,
                         rating |-> extractImdbRating(Val(fetched.value)),
                         votes  |-> extractImdbVotes(Val(fetched.value)),
                         source |-> "omdb"]))

\* No rating has been asked for.
NoLookup == [asked |-> <<>>, answer |-> None, settled |-> None]

baseResponse(title) ==
  [ocrTitle |-> title, title |-> None, imdbId |-> None, tmdbId |-> None,
   confidence |-> None, rating |-> None, votes |-> None]

tmdbResponse(title, data) ==
  [baseResponse(title) EXCEPT !.title = Some(data.title),
                              !.imdbId = Some(data.imdbId),
                              !.tmdbId = Some(data.tmdbId),
                              !.confidence = Some(data.confidence)]

\* fetchMovieData(title) up to its first await.
FetchCall ==
  /\ mode = "single"
  /\ fpc = "init"
  /\ LET x == extractYearFromTitle(ocrTitle, now)
     IN /\ cas' = [cas EXCEPT ![1] = Call(x.title, x.year)]
        /\ fpc' = IF x.year /= None THEN "tmdbWithYear" ELSE "tmdb"
  /\ event' = NoEvent
  /\ UNCHANGED <<mode, probe, now, batchVars, ocrTitle, movieData, response, omdb>>

\* "if (!movieData.imdbId)" never.
NeedsNoRating(data) == FALSE

\* "if (!movieData.imdbId) return tmdbResponse", else the rating is asked.
NeedsRating(data) == ~NoId(Some(data.imdbId))

\* WantsSecondRun without "if (year)" before the first run: the run without
\* the year is repeated after a run without the year.
WantsSecondRunAfterAnyRun(c, step) == c.result = None

\* "if (!movieData)" after the run with the year: the run without it.
WantsSecondRun(c, step) == c.result = None /\ step = "tmdbWithYear"

\* "movieData = await getImdbIdForTitle(...)" settles: the second call
\* without the year, the early returns, or the rating request.
TmdbSettles ==
  /\ fpc \in {"tmdbWithYear", "tmdb"}
  /\ Settled(cas[1])
  /\ event' = NoEvent
  /\ IF cas[1].pc = "thrown"
       THEN /\ response' = Some(baseResponse(ocrTitle))
            /\ fpc' = "returned"
            /\ UNCHANGED <<cas, movieData, omdb>>
     ELSE IF WantsSecondRun(cas[1], fpc)
       THEN /\ cas' = [cas EXCEPT ![1] = Call(cas[1].title, None)]
            /\ fpc' = "tmdb"
            /\ UNCHANGED <<movieData, response, omdb>>
     ELSE IF cas[1].result = None
       THEN /\ response' = Some(baseResponse(ocrTitle))
            /\ fpc' = "returned"
            /\ UNCHANGED <<cas, movieData, omdb>>
     ELSE /\ movieData' = cas[1].result
          /\ IF NeedsRating(Val(cas[1].result))
               THEN /\ fpc' = "omdb"
                    /\ omdb' = [omdb EXCEPT
                                  !.asked = Append(@, Val(cas[1].result).imdbId)]
                    /\ response' = response
               ELSE /\ response' = Some(tmdbResponse(ocrTitle, Val(cas[1].result)))
                    /\ fpc' = "returned"
                    /\ omdb' = omdb
          /\ cas' = cas
  /\ UNCHANGED <<mode, probe, now, batchVars, ocrTitle>>

\* The try around the rating request and the return after it: the rating
\* and the votes are taken from a record, null and a throw leave them null.
withRating(tmdb, settled) ==
  IF settled.thrown THEN tmdb
  ELSE LET ratingData == Val(settled.value)
       IN IF ratingData = None THEN tmdb
          ELSE [tmdb EXCEPT !.rating = Val(ratingData).rating,
                            !.votes = Val(ratingData).votes]

\* The request of getImdbRatingByImdbId is answered, and fetchMovieData
\* returns.
RatingSettles(answer) ==
  LET settled == getImdbRatingByImdbId(Val(movieData).imdbId, answer)
  IN /\ fpc = "omdb"
     /\ response' = Some(withRating(tmdbResponse(ocrTitle, Val(movieData)), settled))
     /\ omdb' = [omdb EXCEPT !.answer = Some(answer), !.settled = Some(settled)]
     /\ fpc' = "returned"
     /\ event' = NoEvent
     /\ UNCHANGED <<mode, probe, now, cas, batchVars, ocrTitle, movieData>>

\* OMDb answers with a record of the film
OmdbReturns ==
  \E answer \in OmdbAnswers : ~omdbFetch(answer).thrown /\ RatingSettles(answer)

\* ... or omdbFetch throws: network, status, Response "False"
OmdbFails ==
  \E answer \in OmdbAnswers : omdbFetch(answer).thrown /\ RatingSettles(answer)

(***************************************************************************)
(* The runs                                                                *)
(***************************************************************************)

TheDune == <<"T","h","e"," ","D","u","n","e">>

\* The titles fetchMovieData is called with.
OcrTitles ==
  {<<"d","u","n","e">>, Dune, TheDune, <<"D","u","n","e","!">>,
   <<"D","u","n","e"," ","(","2","0","2","1",")">>}

\* The elements of the titles array: a title, or a value that is no string.
BatchTitles == {<<"d","u","n","e">>, Undef}

RECURSIVE SeqsUpTo(_, _)
SeqsUpTo(S, n) ==
  IF n = 0 THEN {<<>>}
  ELSE LET shorter == SeqsUpTo(S, n - 1)
       IN shorter \cup {Append(q, x) : q \in shorter, x \in S}

InitSingle ==
  /\ mode = "single"
  /\ ocrTitle \in OcrTitles
  /\ fpc = "init"
  /\ cas = [p \in 1..1 |-> NotCalled]
  /\ titles = <<>>
  /\ bpc = "none"

InitBatch ==
  /\ mode = "batch"
  /\ titles \in SeqsUpTo(BatchTitles, MaxTitles)
  /\ bpc = "init"
  /\ cas = [p \in DOMAIN titles |-> NotCalled]
  /\ ocrTitle = <<>>
  /\ fpc = "none"

Init ==
  /\ now = ThisYear
  /\ bi = 0
  /\ results = <<>>
  /\ resultSrc = <<>>
  /\ movieData = None
  /\ response = None
  /\ event = NoEvent
  /\ omdb = NoLookup
  /\ probe = NoProbe
  /\ (InitSingle \/ InitBatch)

Next ==
  \/ \E p \in Calls : SearchFails(p)
  \/ \E p \in Calls : SearchReturns(p)
  \/ \E p \in Calls : DetailsReturn(p)
  \/ \E p \in Calls : DetailsFail(p)
  \/ \E p \in Calls : ExternalIdsReturn(p)
  \/ \E p \in Calls : ExternalIdsFail(p)
  \/ \E p \in Calls : EnglishDetailsReturn(p)
  \/ \E p \in Calls : EnglishDetailsFail(p)
  \/ \E p \in Calls : RateLimited(p)
  \/ \E p \in Calls : CallHangs(p)
  \/ \E p \in Calls : CallSettles(p)
  \/ NewYear
  \/ BatchCall
  \/ GroupResolves
  \/ GroupRejects
  \/ DelayElapsed
  \/ FetchCall
  \/ TmdbSettles
  \/ OmdbReturns
  \/ OmdbFails

Spec == Init /\ [][Next]_vars

(***************************************************************************)
(* The summary CascadeResults against the cascade: what a call followed    *)
(* answer by answer returns is a result the summary foresees, selected in  *)
(* some year of the run and returned in the same or a later one.           *)
(***************************************************************************)

Years == ThisYear .. (ThisYear + MaxYearChanges)

ResultIsForeseen ==
  \A p \in Calls :
    (cas[p].pc = "returned" /\ cas[p].log /= <<>>) =>
      \E y1 \in Years : \E y2 \in y1 .. now :
        cas[p].result \in CascadeResults(cas[p].title, y1, y2)


(***************************************************************************)
(* The cascade of one title                                                *)
(***************************************************************************)

\* The calls of getImdbIdForTitle that are followed answer by answer.
Cascading(p) == cas[p].log /= <<>>

\* The number of combinations language x search type x query of a call.
Combinations(c) == Len(Languages) * Len(SearchTypes) * Len(c.allQueries)

\* The k-th combination in the nested order: languages outermost, queries
\* innermost.
Combination(c, k) ==
  LET n == Len(c.allQueries)
      t == Len(SearchTypes)
  IN [lang  |-> Languages[((k - 1) \div (t * n)) + 1],
      type  |-> SearchTypes[(((k - 1) \div n) % t) + 1],
      query |-> c.allQueries[((k - 1) % n) + 1]]

AtLastCombination(c) ==
  c.lang = Len(Languages) /\ c.st = Len(SearchTypes) /\ c.qi = Len(c.allQueries)

\* C1: getImdbIdForTitle never returns a record whose imdbId is absent or
\* empty; a pass that found an acceptable candidate and no id in the
\* details, the external ids and the English details goes on with the next
\* combination, and null is returned only at the end of the last one.
NeverReturnsWithoutId ==
  \A p \in Calls :
    /\ (cas[p].pc = "returned" /\ cas[p].result /= None) =>
         ~NoId(Some(Val(cas[p].result).imdbId))
    /\ (Cascading(p) /\ cas[p].pc = "returned" /\ cas[p].result = None) =>
         AtLastCombination(cas[p])
    /\ (event.p = p /\ event.call = "english" /\ event.outcome \in {"ok", "error"}
          /\ event.at < Combinations(cas[p])) =>
         \/ cas[p].pc = "search" /\ Len(cas[p].log) = event.at + 1
         \/ cas[p].pc = "returned" /\ cas[p].result /= None

\* The movie search in German found a candidate, the details, the external
\* ids and the English details were asked and gave no id, and the call is
\* at the next search.
IdlessPassContinues ==
  /\ mode = "single"
  /\ event.p = 1 /\ event.call = "english" /\ event.outcome = "ok"
  /\ cas[1].pc = "search"
  /\ Len(cas[1].allQueries) = 1
  /\ cas[1].lang = 1 /\ cas[1].st = 2

\* C2: the searches of one call are issued in the nested order language,
\* search type, query: the searches issued so far are the first ones of
\* that enumeration, the last one is the combination the call is at, and a
\* call that has returned a record issued no search after the combination
\* that produced it.
SearchesInNestedOrder ==
  \A p \in Calls :
    Cascading(p) =>
      /\ Len(cas[p].log) <= Combinations(cas[p])
      /\ \A k \in DOMAIN cas[p].log : cas[p].log[k] = Combination(cas[p], k)
      /\ cas[p].log[Len(cas[p].log)] = CurrentSearch(cas[p])

\* A record returned from the fallback language, after the second query of
\* the second search type.
ReturnsDeepInTheOrder ==
  /\ mode = "single"
  /\ cas[1].pc = "returned" /\ cas[1].result /= None
  /\ Languages[cas[1].lang] = "en-US"
  /\ cas[1].st = 2 /\ cas[1].qi = 2
  /\ Len(cas[1].log) = Len(SearchTypes) * Len(cas[1].allQueries) + Len(cas[1].allQueries) + 2

\* What is left of a call: the combinations not yet searched, and within a
\* pass the requests not yet made.
Remaining(c) ==
  IF c.pc \in {"returned", "thrown"} THEN 0
  ELSE 1 + 4 * (Combinations(c) - Len(c.log)) +
       (CASE c.pc = "search"   -> 3
          [] c.pc = "details"  -> 2
          [] c.pc = "external" -> 1
          [] OTHER             -> 0)

ExhaustedIsComplete ==
  \A p \in Calls :
    /\ (Cascading(p) /\ cas[p].pc = "returned" /\ cas[p].result = None) =>
         /\ Len(cas[p].log) = Combinations(cas[p])
         /\ \A k \in 1 .. Combinations(cas[p]) : cas[p].log[k] = Combination(cas[p], k)
    /\ Str(cas[p].title) => cas[p].pc /= "thrown"

EveryAnswerAdvances ==
  \A p \in Calls :
    (event'.p = p /\ event' /= event /\ event'.outcome \in {"ok", "error"}
       /\ Cascading(p)) =>
      Remaining(cas'[p]) < Remaining(cas[p])

\* C3: a call in which no combination gives a usable result returns null
\* and does not throw, after a search for every one of the 2 x 3 x
\* |allQueries| combinations; and it ends, since every answer that is
\* neither a 429 nor missing leaves less of the call to do.
ExhaustionReturnsNull == []ExhaustedIsComplete /\ [][EveryAnswerAdvances]_vars

\* Null after all the combinations of a title with several queries, the
\* last search having failed.
ExhaustedAfterAllCombinations ==
  /\ mode = "single"
  /\ cas[1].pc = "returned" /\ cas[1].result = None
  /\ Len(cas[1].allQueries) > 1
  /\ Len(cas[1].log) = 2 * 3 * Len(cas[1].allQueries)
  /\ event.call = "search" /\ event.outcome = "error"

\* C4: a fetch is retried at most once after a 429.
AtMostOneRetry == \A p \in Calls : cas[p].retries <= 1

\* C5: an error of a search does not leave getImdbIdForTitle: the call
\* goes on with the search of the next combination, or, after the last
\* combination, returns null.
SearchErrorIsSkipped ==
  \A p \in Calls :
    (event.p = p /\ event.call = "search" /\ event.outcome = "error") =>
      /\ cas[p].pc /= "thrown"
      /\ \/ /\ event.at < Combinations(cas[p])
            /\ cas[p].pc = "search"
            /\ Len(cas[p].log) = event.at + 1
            /\ cas[p].log[event.at + 1] = Combination(cas[p], event.at + 1)
         \/ /\ event.at = Combinations(cas[p])
            /\ cas[p].pc = "returned"
            /\ cas[p].result = None

\* The combined search failed and the call is at the first search of the
\* fallback language.
SearchErrorThenNextLanguage ==
  /\ mode = "single"
  /\ event.p = 1 /\ event.call = "search" /\ event.outcome = "error"
  /\ cas[1].pc = "search"
  /\ cas[1].log[event.at].type = "multi"
  /\ CurrentSearch(cas[1]).lang = "en-US"
  /\ CurrentSearch(cas[1]).type = "movie"


(***************************************************************************)
(* The batch                                                               *)
(***************************************************************************)

Done(p) == cas[p].pc \in {"returned", "thrown", "collected"}

\* Nothing more can happen in the batch.
BatchAtRest ==
  /\ mode = "batch"
  /\ bpc \notin {"init", "delay"}
  /\ \A p \in Calls : ~Running(p)
  /\ bpc = "awaiting" => \E p \in Batch(bi) : cas[p].pc /= "returned"

\* C7: with titles that are all strings, when nothing more can happen,
\* every call but the ones that hang has been made and has ended.
OnlyTheStuckTitleStalls ==
  (BatchAtRest /\ \A p \in Calls : Str(titles[p])) =>
    \A p \in Calls : cas[p].stuck \/ Done(p)

\* C8: the results are in the order of their titles, whatever the order in
\* which the calls of a group have settled.
ResultsInInputOrder ==
  /\ Len(resultSrc) = Len(results)
  /\ \A k \in DOMAIN resultSrc : resultSrc[k] \in DOMAIN titles
  /\ \A j, k \in DOMAIN resultSrc : j < k => resultSrc[j] < resultSrc[k]

\* Both results of a group of three returned, the call of the first title
\* having settled last.
FirstTitleSettledLast ==
  /\ bpc = "returned"
  /\ Len(titles) = 3
  /\ resultSrc = <<1, 3>>
  /\ event.p = 1 /\ event.call = "running"

\* C9: every record that getImdbIdsForTitles returns holds the title it was
\* asked for (title is the only field of the record that holds a title),
\* and so does every response of fetchMovieData, in ocrTitle.
EveryRecordEchoesItsQuery ==
  /\ \A k \in DOMAIN results : results[k].title = titles[resultSrc[k]]
  /\ response /= None => Val(response).ocrTitle = ocrTitle

Executing == {p \in Calls : InFlight(cas[p])}

\* C10: at most batchSize calls are in flight; the calls made are those of
\* the groups up to the current one, groups of batchSize consecutive
\* titles; the calls of the groups before it have all been awaited; and
\* the delay is entered only when titles are left.
GroupsOfThree ==
  mode = "batch" =>
    /\ Cardinality(Executing) <= batchSize
    /\ bi % batchSize = 0
    /\ Executing \subseteq Batch(bi)
    /\ \A p \in Calls : p <= bi => cas[p].pc = "collected"
    /\ \A p \in Batch(bi) : bpc \in {"awaiting", "rejected"} => cas[p].pc /= "idle"
    /\ \A p \in Calls : p > bi + batchSize => cas[p].pc = "idle"
    /\ bpc = "delay" => /\ bi + batchSize < Len(titles)
                        /\ Executing = {}
    /\ bpc = "returned" => \A p \in Calls : cas[p].pc = "collected"

\* The second group has begun: its one call is in flight, the three calls
\* of the first group have been awaited.
SecondGroupInFlight ==
  /\ bpc = "awaiting"
  /\ bi = batchSize
  /\ Executing = {batchSize + 1}
  /\ event = NoEvent


(***************************************************************************)
(* The rating                                                              *)
(***************************************************************************)

\* C11: a response of fetchMovieData that holds an imdbId was returned
\* after one rating request, for that id, had been made and had settled;
\* a response without an imdbId was returned with no rating request made,
\* and its rating and votes are null.
RatingAskedIffIdPresent ==
  response /= None =>
    LET r == Val(response)
    IN /\ ~NoId(r.imdbId) =>
            /\ omdb.asked = <<Val(r.imdbId)>>
            /\ omdb.settled /= None
       /\ NoId(r.imdbId) =>
            /\ omdb.asked = <<>>
            /\ r.rating = None
            /\ r.votes = None

\* A response with a rating, after the request for its id.
RatedResponse ==
  /\ response /= None
  /\ Val(response).imdbId = Some("tt1160419")
  /\ Val(response).rating /= None
  /\ omdb.asked = <<"tt1160419">>

\* The answers to which omdbFetch has nothing to return.
OmdbFailure(answer) ==
  answer.kind \in {"network", "status"} \/ Val(answer.body).Response = "False"

\* C12: getImdbRatingByImdbId is asked at most once by fetchMovieData and
\* never throws; fetch failing, a status that is not 2xx and Response
\* "False" all make it return null, and the response then has a null
\* rating and null votes beside the title, imdbId, tmdbId and confidence
\* of the match.
RatingFailureGivesNull ==
  /\ Len(omdb.asked) <= 1
  /\ omdb.settled /= None =>
       LET settled == Val(omdb.settled)
           match == Val(movieData)
       IN /\ ~settled.thrown
          /\ OmdbFailure(Val(omdb.answer)) =>
               /\ Val(settled.value) = None
               /\ response /= None
               /\ Val(response).rating = None
               /\ Val(response).votes = None
               /\ Val(response).title = Some(match.title)
               /\ Val(response).imdbId = Some(match.imdbId)
               /\ Val(response).tmdbId = Some(match.tmdbId)
               /\ Val(response).confidence = Some(match.confidence)

\* OMDb knew no film of the id, and the response of the match is returned.
NotFoundGivesNullRating ==
  /\ omdb.answer /= None
  /\ Val(omdb.answer).kind = "body"
  /\ Val(Val(omdb.answer).body).Response = "False"
  /\ response /= None
  /\ Val(response).imdbId = Some("tt1160419")
  /\ Val(response).rating = None


(***************************************************************************)
(* The details of a candidate                                              *)
(***************************************************************************)

\* C14: a failure under getDetailsWithImdbId does not leave
\* getImdbIdForTitle, and the call goes on as with details without an id:
\* with the external ids of a film, else with the English details when the
\* language is de-DE, else with the search of the next combination (null
\* after the last); it never returns a record then.
DetailsErrorIsNoId ==
  \A p \in Calls :
    (event.p = p /\ event.call = "details" /\ event.outcome = "error") =>
      LET c == cas[p]
      IN /\ c.pc /= "thrown"
         /\ \/ /\ c.pc = "external"
               /\ Val(c.best).media_type = "movie"
               /\ NoId(c.imdbId)
            \/ /\ c.pc = "english"
               /\ Val(c.best).media_type /= "movie"
               /\ Languages[c.lang] = "de-DE"
               /\ NoId(c.imdbId)
            \/ /\ c.pc = "search"
               /\ Len(c.log) = event.at + 1
               /\ c.log[event.at].lang /= "de-DE"
               /\ c.log[event.at].type /= "movie"
            \/ /\ c.pc = "returned"
               /\ c.result = None
               /\ event.at = Combinations(c)

\* The details of a film failed in German, and the external ids are asked.
DetailsErrorThenExternalIds ==
  /\ mode = "single"
  /\ event.p = 1 /\ event.call = "details" /\ event.outcome = "error"
  /\ cas[1].pc = "external"
  /\ cas[1].lang = 1


(***************************************************************************)
(* The functions of the services applied on their own: the arguments are   *)
(* drawn at the start, one action applies one function.                    *)
(***************************************************************************)

\* The longest imdbRating, in characters.
MaxRatingLen == 3

\* The longest list of candidates.
MaxCandidates == 2

\* The longest query, in words.
MaxWords == 2

\* The longest text that is normalized, in code points.
MaxTextLen == 3

\* The longest list of result rows that is converted.
MaxRows == 1

RatingTexts ==
  {Undef, NotAvailable, InfinityText} \cup SeqsUpTo({"8", ".", "x", " "}, MaxRatingLen)

VoteTexts == {Undef, <<>>, NotAvailable, <<"9","0","2">>}

RatingPayloads ==
  {[Response |-> "True", imdbRating |-> r, imdbVotes |-> v] :
     r \in RatingTexts, v \in VoteTexts}

\* A Candidate.
Cand(title, date, popularity, votes) ==
  [id |-> 1, media_type |-> "movie", title |-> title, date |-> date,
   popularity |-> popularity, vote_count |-> votes]

\* For the query "dune" in 2025: 196, 80, 40 (twice, with two ids), 20, 21
\* (6 a year later), 66 (with no title) and 81.
ProbeCandidates ==
  {Cand(Dune, Some(2021), Some(99), Some(9999)),
   Cand(<<"D","u","n","e"," ","S","a","g","a"," ","P","a","r","t"," ",
          "O","n","e"," ","T","w","o">>, Some(2000), Some(9), None),
   Cand(<<"D","u","n">>, Some(2000), Some(9), Some(9)),
   [Cand(<<"D","u","n">>, Some(2000), Some(9), Some(9)) EXCEPT !.id = 2],
   Cand(<<"N","o">>, None, Some(9), Some(9)),
   Cand(Nope, Some(2020), Some(9), None),
   Cand(<<>>, Some(2024), Some(99), Some(9999)),
   Cand(<<"T","h","e"," ","D","u","n","e"," ","S","a","g","a">>, Some(2024), None, None)}

ProbeQueries == {<<"d","u","n","e">>, DuneSaga}

RECURSIVE Join(_)
\* words.join(' ')
Join(words) ==
  IF words = <<>> THEN <<>>
  ELSE IF Len(words) = 1 THEN words[1]
  ELSE words[1] \o <<" ">> \o Join(Tail(words))

QueryWords == {<<"a","a">>, <<"a","a","a">>, <<"a","a","b">>}

QueryTexts == {Join(ws) : ws \in SeqsUpTo(QueryWords, MaxWords)}

\* Titles that normalize to the query, and titles that contain it.
ExactTitles(q) == {q, q \o <<"!">>, [i \in DOMAIN q |-> IF q[i] = "a" THEN "A" ELSE q[i]]}

Prefixes == {<<>>, <<"b">>, <<"b","b","b"," ">>, <<"a","a","b"," ">>}

Suffixes == {<<>>, <<"b">>, <<" ","b","b","b">>, <<" ","a","a","a">>}

ContainingTitles(q) == {pre \o q \o post : pre \in Prefixes, post \in Suffixes}

\* date, popularity and vote_count that two candidates share.
Metas == {<<None, None, None>>, <<Some(2020), Some(9), Some(99)>>}

ScorePairs ==
  {<<<<Cand(e, m[1], m[2], m[3]), Cand(t, m[1], m[2], m[3])>>, q>> :
     <<q, e, t, m>> \in
       UNION {{<<q, e, t, m>> : e \in ExactTitles(q), t \in ContainingTitles(q), m \in Metas}
                : q \in QueryTexts}}

NormalizeTexts == SeqsUpTo({"A", "b", " ", "!", "1", "U+00FC", "U+2122"}, MaxTextLen)

TitleFields == {Undef, <<>>, Dune}

\* Result rows, with every combination of present, empty and absent title
\* fields.
ProbeRows ==
  {Tagged(row, mt) :
     row \in {[MovieRow(1, Undef, None, None, None) EXCEPT
                 !.title = t, !.original_title = o] : t, o \in TitleFields}
        \cup {[ShowRow(1, Undef, None, None, None) EXCEPT
                 !.name = t, !.original_name = o] : t, o \in TitleFields},
     mt \in {"movie", "tv", "person"}}

\* Words of two to eight letters, some of them within others.
Tokens ==
  {<<"d","u">>, <<"d","u","n">>, <<"d","u","n","e">>, <<"d","u","n","e","s">>,
   <<"d","u","n","e","l","a","n","d">>, <<"x","y","z">>}

\* Titles and queries of up to MaxWords of these words.
TokenTexts == {Join(ws) : ws \in SeqsUpTo(Tokens, MaxWords)}

\* Titles of up to MaxWords words, with articles, capitals and punctuation.
VariantTitles ==
  {Join(ws) :
     ws \in SeqsUpTo({<<"T","h","e">>, <<"a">>, <<"D","e","r">>, <<"d","u","n","e">>,
                      <<"D","u","n","e">>, <<"S","a","g","a","!">>}, MaxWords)}

Probe(fn, args) == [fn |-> fn, args |-> args, out |-> <<>>]

PureInit ==
  /\ mode = "pure"
  /\ now = ThisYear
  /\ cas = <<>>
  /\ titles = <<>>
  /\ bpc = "none"
  /\ bi = 0
  /\ results = <<>>
  /\ resultSrc = <<>>
  /\ ocrTitle = <<>>
  /\ fpc = "none"
  /\ movieData = None
  /\ response = None
  /\ event = NoEvent
  /\ omdb = NoLookup
  /\ \/ \E data \in RatingPayloads : probe = Probe("extractImdbRating", <<data>>)
     \/ \E candidates \in SeqsUpTo(ProbeCandidates, MaxCandidates), q \in ProbeQueries :
          probe = Probe("selectBestCandidate", <<candidates, q>>)
     \/ \E candidate \in ProbeCandidates, q \in ProbeQueries :
          probe = Probe("confidence", <<candidate, q>>)
     \/ \E pair \in ScorePairs : probe = Probe("calculateCandidateScore", pair)
     \/ \E title \in VariantTitles : probe = Probe("allQueries", <<title>>)
     \/ \E details \in DetailPayloads, row \in {DuneMovie, DuneShow},
           lang \in DOMAIN Languages :
          probe = Probe("details", <<details, row, lang>>)
     \/ \E title \in TokenTexts, queryTitle \in TokenTexts :
          probe = Probe("scoreParts", <<title, queryTitle>>)
     \/ \E profile \in {"NFD", "NFKD"}, text \in NormalizeTexts :
          probe = Probe("normalizeText", <<profile, text>>)
     \/ \E searchType \in Range(SearchTypes), rows \in SeqsUpTo(ProbeRows, MaxRows) :
          probe = Probe("convertToCandidates", <<searchType, rows>>)

Applies(fn, out) ==
  /\ mode = "pure"
  /\ probe.fn = fn
  /\ probe' = [probe EXCEPT !.out = out]
  /\ UNCHANGED <<mode, now, cas, batchVars, singleVars, event>>

ApplyExtract ==
  /\ probe.out = <<>>
  /\ Applies("extractImdbRating",
             <<[rating |-> extractImdbRating(probe.args[1]),
                votes  |-> extractImdbVotes(probe.args[1])]>>)

ApplySelect ==
  /\ probe.out = <<>>
  /\ Applies("selectBestCandidate",
             <<[year |-> now,
                best |-> selectBestCandidate(probe.args[1], probe.args[2], now)]>>)

ApplyConfidence ==
  /\ probe.out = <<>>
  /\ Applies("confidence",
             <<[year |-> now,
                confidence |-> confidenceOf(probe.args[1], probe.args[2], now)]>>)

\* The candidates are scored, now and once more.
ApplyScore ==
  /\ Len(probe.out) < 2
  /\ Applies("calculateCandidateScore",
             Append(probe.out,
                    [c \in DOMAIN probe.args[1] |->
                       calculateCandidateScore(probe.args[1][c], probe.args[2], now)]))

\* The parts of calculateCandidateScore that compare the two texts: the
\* tier, the words, the matching words and the penalty.
ApplyScoreParts ==
  /\ probe.out = <<>>
  /\ LET title == normalizeText(probe.args[1])
         query == normalizeText(probe.args[2])
         queryWords == wordsOf(query)
         titleWords == wordsOf(title)
         matching == matchingWords(queryWords, titleWords)
     IN Applies("scoreParts",
                <<[title      |-> title,
                   query      |-> query,
                   tier       |-> textTier(title, query),
                   queryWords |-> queryWords,
                   titleWords |-> titleWords,
                   matching   |-> matching,
                   penalty    |-> extraWordPenalty(titleWords, matching),
                   score      |-> calculateCandidateScore(
                                    Cand(probe.args[1], None, None, None),
                                    probe.args[2], now)]>>)

\* The first lines of getImdbIdForTitle.
ApplyAllQueries ==
  /\ probe.out = <<>>
  /\ Applies("allQueries",
             <<[normalizedTitle  |-> normalizeText(probe.args[1]),
                searchVariations |-> createSearchVariations(probe.args[1]),
                queryVariations  |-> generateQueryVariations(probe.args[1]),
                allQueries       |-> allQueries(probe.args[1])]>>)

\* The pass of getImdbIdForTitle from the answer of the details on: the
\* candidate was selected for the title "dune" in a search of its kind.
ApplyDetails ==
  /\ probe.out = <<>>
  /\ LET kind == IF probe.args[2] = DuneMovie THEN 1 ELSE 2
         c == [Call(<<"d","u","n","e">>, None) EXCEPT
                 !.lang = probe.args[3],
                 !.st = kind,
                 !.pc = "details",
                 !.best = Some(candidatesOf(SearchTypes[kind], <<probe.args[2]>>)[1])]
     IN Applies("details",
                <<AfterDetails([c EXCEPT !.imdbId = imdbIdOf(probe.args[1])], now)>>)

ApplyNormalize ==
  /\ probe.out = <<>>
  /\ LET once == IF probe.args[1] = "NFD" THEN normalizeText(probe.args[2])
                 ELSE normalizeTextNFKD(probe.args[2])
         twice == IF probe.args[1] = "NFD" THEN normalizeText(once)
                  ELSE normalizeTextNFKD(once)
     IN Applies("normalizeText", <<once, twice>>)

ApplyConvert ==
  /\ probe.out = <<>>
  /\ Applies("convertToCandidates", <<candidatesOf(probe.args[1], probe.args[2])>>)

\* The calendar year changes before a score is computed.
ScoreNewYear ==
  /\ mode = "pure"
  /\ probe.fn \in {"selectBestCandidate", "confidence", "calculateCandidateScore"}
  /\ probe.fn /= "calculateCandidateScore" => probe.out = <<>>
  /\ Len(probe.out) < 2
  /\ now < ThisYear + MaxYearChanges
  /\ now' = now + 1
  /\ UNCHANGED <<mode, probe, cas, batchVars, singleVars, event>>

PureNext ==
  \/ ApplyExtract
  \/ ApplySelect
  \/ ApplyConfidence
  \/ ApplyScore
  \/ ApplyScoreParts
  \/ ApplyAllQueries
  \/ ApplyDetails
  \/ ApplyNormalize
  \/ ApplyConvert
  \/ ScoreNewYear

PureSpec == PureInit /\ [][PureNext]_vars


(***************************************************************************)
(* The rating fields of a payload                                          *)
(***************************************************************************)

\* The text begins, after white space, with a decimal number.
StartsNumber(s) ==
  LET t == TrimLeft(s)
  IN /\ t /= <<>>
     /\ \/ IsDigit(t[1])
        \/ t[1] = "." /\ Len(t) > 1 /\ IsDigit(t[2])

\* C13: extractImdbRating gives null or a finite number, never NaN and never
\* a text: a missing, empty, "N/A" or unparsable imdbRating gives null, and
\* extractImdbVotes gives null for a missing or "N/A" imdbVotes.
RatingIsNullOrFinite ==
  (probe.fn = "extractImdbRating" /\ probe.out /= <<>>) =>
    LET data == probe.args[1]
        out == probe.out[1]
    IN /\ \/ out.rating = None
          \/ \E units \in 0..(10 ^ MaxRatingLen), scale \in 0..MaxRatingLen :
               out.rating = Some(Finite(units, scale))
       /\ data.imdbRating \in {Undef, <<>>, NotAvailable} => out.rating = None
       /\ ~StartsNumber(data.imdbRating) => out.rating = None
       /\ StartsNumber(data.imdbRating) => out.rating /= None
       /\ data.imdbVotes \in {Undef, NotAvailable} => out.votes = None

\* An imdbRating that is no number has given null.
UnparsableRatingIsNull ==
  /\ probe.fn = "extractImdbRating"
  /\ probe.out /= <<>>
  /\ probe.args[1].imdbRating = <<"x", "8">>
  /\ probe.args[1].imdbVotes = NotAvailable
  /\ probe.out[1] = [rating |-> None, votes |-> None]


(***************************************************************************)
(* The best candidate                                                      *)
(***************************************************************************)

\* C15: selectBestCandidate gives nothing for no candidates; the candidate
\* it gives is one of the list, of maximal score, and its score is above 20;
\* it gives nothing only when no score is above 20.
BestIsMaximalAndAboveTwenty ==
  (probe.fn = "selectBestCandidate" /\ probe.out /= <<>>) =>
    LET candidates == probe.args[1]
        queryTitle == probe.args[2]
        best == probe.out[1].best
        score(c) == calculateCandidateScore(c, queryTitle, probe.out[1].year)
    IN /\ candidates = <<>> => best = None
       /\ best /= None =>
            /\ Val(best) \in Range(candidates)
            /\ score(Val(best)) > 20 * ScoreDen(queryTitle)
            /\ \A c \in Range(candidates) : score(c) <= score(Val(best))
       /\ best = None =>
            \A c \in Range(candidates) : score(c) <= 20 * ScoreDen(queryTitle)

\* Of a candidate of score 20 and a candidate of score 40, the second was
\* selected.
SecondCandidateSelected ==
  /\ probe.fn = "selectBestCandidate"
  /\ probe.out /= <<>>
  /\ Len(probe.args[1]) = 2
  /\ calculateCandidateScore(probe.args[1][1], probe.args[2], probe.out[1].year)
       = 20 * ScoreDen(probe.args[2])
  /\ calculateCandidateScore(probe.args[1][2], probe.args[2], probe.out[1].year)
       = 40 * ScoreDen(probe.args[2])
  /\ probe.out[1].best = Some(probe.args[1][2])

\* In the cascade, the candidate that a pass goes on with had a score above
\* 20 when it was selected.
SelectedCandidateWasAccepted ==
  \A p \in Calls :
    (cas[p].pc \in {"details", "external", "english"} /\ cas[p].best /= None) =>
      \E y \in Years :
        y <= now /\ Accepted(Val(cas[p].best), cas[p].normalizedTitle, y)


(***************************************************************************)
(* The confidence                                                          *)
(***************************************************************************)

\* C16: the confidence is a step function of the score alone: high from 80,
\* medium from 40 and below 80, low below 40.
ConfidenceIsAStepOfScore ==
  (probe.fn = "confidence" /\ probe.out /= <<>>) =>
    LET matchScore == calculateCandidateScore(probe.args[1], probe.args[2], probe.out[1].year)
        den == ScoreDen(probe.args[2])
        confidence == probe.out[1].confidence
    IN /\ confidence \in {"high", "medium", "low"}
       /\ confidence = "high" <=> matchScore >= 80 * den
       /\ confidence = "medium" <=> (40 * den <= matchScore /\ matchScore < 80 * den)
       /\ confidence = "low" <=> matchScore < 40 * den

\* A score of exactly 80 has given high.
EightyIsHigh ==
  /\ probe.fn = "confidence"
  /\ probe.out /= <<>>
  /\ calculateCandidateScore(probe.args[1], probe.args[2], probe.out[1].year)
       = 80 * ScoreDen(probe.args[2])
  /\ probe.out[1].confidence = "high"


(***************************************************************************)
(* The score                                                               *)
(***************************************************************************)

\* C17: of two candidates with the same popularity, vote count and date, the
\* one whose normalized title is the normalized query scores at least as
\* high as the one whose normalized title only contains it.
ExactTitleScoresNoLess ==
  probe.fn = "calculateCandidateScore" =>
    LET exact == probe.args[1][1]
        other == probe.args[1][2]
        query == normalizeText(probe.args[2])
    IN (/\ normalizeText(exact.title) = query
        /\ includes(normalizeText(other.title), query)
        /\ exact.popularity = other.popularity
        /\ exact.vote_count = other.vote_count
        /\ exact.date = other.date) =>
         \A e \in DOMAIN probe.out : probe.out[e][1] >= probe.out[e][2]

\* A title that only contains the query has scored less than the title
\* that is the query.
ContainingTitleScoredLess ==
  /\ probe.fn = "calculateCandidateScore"
  /\ probe.out /= <<>>
  /\ normalizeText(probe.args[1][1].title) = normalizeText(probe.args[2])
  /\ probe.args[2] = <<"a","a","a"," ","a","a","b">>
  /\ probe.args[1][2].title = <<"b","b","b"," ">> \o probe.args[2] \o <<" ","a","a","a">>
  /\ probe.args[1][1].date = Some(2020)
  /\ probe.args[1][2].date = Some(2020)
  /\ probe.out[1][1] > probe.out[1][2]


\* C18: two evaluations of the score with the same candidate and the same
\* query give the same score, whenever they are made.
ScoreIndependentOfTime ==
  probe.fn = "calculateCandidateScore" =>
    \A e, f \in DOMAIN probe.out : probe.out[e] = probe.out[f]

\* Two evaluations made in the same year give the same score.
ScoreDependsOnYearOnly ==
  (probe.fn = "calculateCandidateScore" /\ now = ThisYear) =>
    \A e, f \in DOMAIN probe.out : probe.out[e] = probe.out[f]


(***************************************************************************)
(* The normalization                                                       *)
(***************************************************************************)

\* C19: normalizeText is idempotent in both profiles: the normalization of a
\* normalized text is that text.
NormalizeTextIsIdempotent ==
  (probe.fn = "normalizeText" /\ probe.out /= <<>>) => probe.out[2] = probe.out[1]

\* The profile that keeps the letters and the digits is idempotent, and the
\* profile that strips the diacritics is on texts without a code point that
\* decomposes into upper-case letters.
IdempotentButForCompatibility ==
  (/\ probe.fn = "normalizeText"
   /\ probe.out /= <<>>
   /\ probe.args[1] = "NFD" \/ "U+2122" \notin Range(probe.args[2])) =>
    probe.out[2] = probe.out[1]


(***************************************************************************)
(* The title of a candidate                                                *)
(***************************************************************************)

\* C20: every candidate that convertToCandidates or convertMultiToCandidates
\* makes of a result row has a title that is not empty.
CandidateTitleIsNeverEmpty ==
  (probe.fn = "convertToCandidates" /\ probe.out /= <<>>) =>
    \A i \in DOMAIN probe.out[1] : probe.out[1][i].title /= <<>>

\* The title of a candidate is empty only when neither title field of its
\* kind holds a text.
CandidateTitleIsAFieldOfTheRow ==
  (probe.fn = "convertToCandidates" /\ probe.out /= <<>>) =>
    LET rows == IF probe.args[1] = "multi"
                  THEN SelectSeq(probe.args[2], IsMovieOrTv) ELSE probe.args[2]
        kindOf(row) == IF probe.args[1] = "multi" THEN row.media_type ELSE probe.args[1]
        fields(row) == IF kindOf(row) = "movie"
                         THEN <<row.title, row.original_title>>
                         ELSE <<row.name, row.original_name>>
    IN /\ Len(probe.out[1]) = Len(rows)
       /\ \A i \in DOMAIN rows :
            LET f == fields(rows[i])
                title == probe.out[1][i].title
            IN /\ title = <<>> <=> (f[1] \in {Undef, <<>>} /\ f[2] \in {Undef, <<>>})
               /\ title /= <<>> => title \in {f[1], f[2]}

\* The consequence for the cascade, which goes on with the candidate that
\* selectBestCandidate gives and returns its title: the title of the
\* selected candidate is not empty.  It does not hold: a row without a title
\* is selected on its popularity, its votes and its date.
SelectedTitleIsNeverEmpty ==
  (probe.fn = "selectBestCandidate" /\ probe.out /= <<>> /\ probe.out[1].best /= None) =>
    Val(probe.out[1].best).title /= <<>>


(***************************************************************************)
(* Two resolutions at once: getImdbIdForTitle is called for two titles,    *)
(* and the answers to the two calls arrive in any order.  The provider     *)
(* answers every request or fails it, within one calendar year.            *)
(***************************************************************************)

\* The two titles.
PairTitles == <<<<"d","u","n","e">>, Nope>>

PairInit ==
  /\ mode = "pair"
  /\ now = ThisYear
  /\ cas = [p \in DOMAIN PairTitles |-> Call(PairTitles[p], None)]
  /\ titles = <<>>
  /\ bpc = "none"
  /\ bi = 0
  /\ results = <<>>
  /\ resultSrc = <<>>
  /\ ocrTitle = <<>>
  /\ fpc = "none"
  /\ movieData = None
  /\ response = None
  /\ event = NoEvent
  /\ omdb = NoLookup
  /\ probe = NoProbe

PairNext ==
  \/ \E p \in Calls : SearchFails(p)
  \/ \E p \in Calls : SearchReturns(p)
  \/ \E p \in Calls : DetailsReturn(p)
  \/ \E p \in Calls : DetailsFail(p)
  \/ \E p \in Calls : ExternalIdsReturn(p)
  \/ \E p \in Calls : ExternalIdsFail(p)
  \/ \E p \in Calls : EnglishDetailsReturn(p)
  \/ \E p \in Calls : EnglishDetailsFail(p)

PairSpec == PairInit /\ [][PairNext]_vars

\* C21: two resolutions share no state: an answer to one call changes the
\* record of that call alone, and the result of a call is one that a call
\* of its title gives when it runs alone, however the answers to the two
\* calls are interleaved.
ResolutionsShareNoState ==
  /\ [](\A p \in Calls :
          cas[p].pc = "returned" =>
            cas[p].result \in CascadeResults(cas[p].title, now, now))
  /\ [][\A p \in Calls :
          cas'[p] /= cas[p] =>
            /\ event'.p = p
            /\ \A q \in Calls \ {p} : cas'[q] = cas[q]]_vars

\* The first call has returned a match while the second, called at the same
\* time for another title, is at its second search and awaits the details.
OneReturnedWhileOtherAwaits ==
  /\ mode = "pair"
  /\ cas[1].pc = "returned"
  /\ cas[1].result /= None
  /\ cas[2].title /= cas[1].title
  /\ cas[2].pc = "details"
  /\ Len(cas[2].log) = 2


(***************************************************************************)
(* The lookups of the id                                                   *)
(***************************************************************************)

\* The pass of the call ended without a match: the next search is issued,
\* or the combinations are exhausted.
PassEnded(c, d) == d = Advance(c)

\* C22: for the selected candidate the details are fetched first, in the
\* language of the pass; the external ids are asked only after the details,
\* with no id yet and for a movie; the English details are fetched only
\* after these, with no id yet and in the pass of de-DE; each fallback is
\* made when its guard holds; and an error of a fallback ends neither the
\* call nor the cascade.
LookupsInOrderAndGuarded ==
  [][\A p \in Calls :
       LET c == cas[p]
           d == cas'[p]
           answered == d /= c /\ event'.p = p /\ event'.outcome \in {"ok", "error"}
           movie == Val(c.best).media_type = "movie"
           german == Languages[c.lang] = "de-DE"
       IN /\ (d.pc = "details" /\ c.pc /= "details") =>
               c.pc = "search" /\ d.best /= None /\ d.lang = c.lang
          /\ (d.pc = "external" /\ c.pc /= "external") =>
               c.pc = "details" /\ NoId(d.imdbId) /\ movie
          /\ (d.pc = "english" /\ c.pc /= "english") =>
               c.pc \in {"details", "external"} /\ NoId(d.imdbId) /\ german
          /\ (answered /\ c.pc = "details" /\ d.pc = "english") => ~movie
          /\ (answered /\ c.pc = "details" /\ PassEnded(c, d)) => ~movie /\ ~german
          /\ (answered /\ c.pc = "external" /\ PassEnded(c, d)) => ~german
          /\ (answered /\ c.pc \in {"details", "external", "english"}) =>
               \/ d.pc \in {"external", "english"}
               \/ PassEnded(c, d)
               \/ d.pc = "returned" /\ d.result /= None
          /\ (answered /\ c.pc \in {"external", "english"} /\ event'.outcome = "error") =>
               /\ d.pc /= "thrown"
               /\ IF c.pc = "external" /\ german THEN d.pc = "english"
                  ELSE PassEnded(c, d)]_vars

\* The external ids have failed, and the call awaits the English details.
ExternalIdsErrorThenEnglish ==
  \E p \in Calls :
    /\ event = [p |-> p, call |-> "external", outcome |-> "error", at |-> Len(cas[p].log)]
    /\ cas[p].pc = "english"
    /\ cas[p].retries = 0


(***************************************************************************)
(* Ties                                                                    *)
(***************************************************************************)

\* C23: of several candidates of maximal score, selectBestCandidate gives
\* the one that is first in the list.
TiesGoToTheFirst ==
  (probe.fn = "selectBestCandidate" /\ probe.out /= <<>> /\ probe.out[1].best /= None) =>
    LET candidates == probe.args[1]
        score(i) == calculateCandidateScore(candidates[i], probe.args[2], probe.out[1].year)
    IN \E i \in DOMAIN candidates :
         /\ Val(probe.out[1].best) = candidates[i]
         /\ \A j \in DOMAIN candidates : score(j) <= score(i)
         /\ \A j \in 1..(i - 1) : score(j) < score(i)

\* Two candidates that differ in their id had the same score, and the
\* first was selected.
FirstOfTwoEqualsSelected ==
  /\ probe.fn = "selectBestCandidate"
  /\ probe.out /= <<>>
  /\ Len(probe.args[1]) = 2
  /\ probe.args[1][1] /= probe.args[1][2]
  /\ calculateCandidateScore(probe.args[1][1], probe.args[2], probe.out[1].year)
       = calculateCandidateScore(probe.args[1][2], probe.args[2], probe.out[1].year)
  /\ probe.out[1].best = Some(probe.args[1][1])


(***************************************************************************)
(* The parts of the score that compare the texts                           *)
(***************************************************************************)

Scored == probe.fn = "scoreParts" /\ probe.out /= <<>>

\* C24: the tier is symmetric in the two normalized texts: 100 when they
\* are equal, else 60 when one starts with the other, else 40 when one
\* contains the other, else 0.
TierIsSymmetric ==
  Scored =>
    LET title == probe.out[1].title
        query == probe.out[1].query
    IN probe.out[1].tier =
         IF title = query THEN 100
         ELSE IF startsWith(title, query) \/ startsWith(query, title) THEN 60
         ELSE IF includes(title, query) \/ includes(query, title) THEN 40
         ELSE 0

\* The tier looks for the query in the title, and never for the title in the
\* query.
TierLooksForTheQueryInTheTitle ==
  Scored =>
    LET title == probe.out[1].title
        query == probe.out[1].query
    IN probe.out[1].tier =
         IF title = query THEN 100
         ELSE IF startsWith(title, query) THEN 60
         ELSE IF includes(title, query) THEN 40
         ELSE 0

\* C25: a query word of more than two letters is matched only when it is a
\* title word, or when it contains a title word or is contained in one and
\* both words have more than four letters; the bonus is 30 times the
\* fraction of the query words that are matched.
WordsMatchAsStated ==
  Scored =>
    LET out == probe.out[1]
        Stated(qWord) ==
          \E i \in DOMAIN out.titleWords :
            LET tWord == out.titleWords[i]
            IN \/ tWord = qWord
               \/ /\ includes(tWord, qWord) \/ includes(qWord, tWord)
                  /\ Len(tWord) > 4
                  /\ Len(qWord) > 4
    IN /\ out.matching = SelectSeq(out.queryWords, Stated)
       /\ out.score = Max(Len(out.queryWords), 1) * (out.tier - out.penalty)
                        + 30 * Len(out.matching)

\* A query word is matched when it contains a title word or is contained in
\* one, whatever the lengths above two, and the bonus is 30 times the
\* fraction of the query words that are matched.
WordsMatchByContainment ==
  Scored =>
    LET out == probe.out[1]
        Contained(qWord) ==
          \E i \in DOMAIN out.titleWords :
            includes(out.titleWords[i], qWord) \/ includes(qWord, out.titleWords[i])
    IN /\ \A i \in DOMAIN out.queryWords : Len(out.queryWords[i]) > 2
       /\ \A i \in DOMAIN out.titleWords : Len(out.titleWords[i]) > 2
       /\ out.matching = SelectSeq(out.queryWords, Contained)
       /\ out.score = Max(Len(out.queryWords), 1) * (out.tier - out.penalty)
                        + 30 * Len(out.matching)

\* C26: the penalty for the extra words of the title is between 0 and 20.
PenaltyBetweenZeroAndTwenty ==
  Scored => probe.out[1].penalty \in 0..20

\* The penalty is at most 20, and it is twice the number of title words less
\* the number of matched query words, which can be the greater.
PenaltyIsAtMostTwenty ==
  Scored =>
    LET out == probe.out[1]
        extraWords == Len(out.titleWords) - Len(out.matching)
    IN /\ out.penalty <= 20
       /\ out.penalty = IF extraWords > 10 THEN 20 ELSE 2 * extraWords
       /\ out.penalty < 0 <=> Len(out.matching) > Len(out.titleWords)


(***************************************************************************)
(* The queries of a title                                                  *)
(***************************************************************************)

\* The place of the first occurrence of x in xs.
FirstAt(xs, x) == CHOOSE i \in DOMAIN xs : xs[i] = x /\ \A j \in 1..(i - 1) : xs[j] /= x

\* C27: the queries of the cascade hold the normalized title and no string
\* twice, and they are in the order in which they were generated, each at
\* its first occurrence; a title of one word has one normalized variant.
QueriesHoldTheBaseOnceInOrder ==
  (probe.fn = "allQueries" /\ probe.out /= <<>>) =>
    LET out == probe.out[1]
        all == out.allQueries
        generated == out.searchVariations \o out.queryVariations
    IN /\ out.queryVariations /= <<>>
       /\ out.queryVariations[1] = out.normalizedTitle
       /\ \E i \in DOMAIN all : all[i] = out.normalizedTitle
       /\ \A i, j \in DOMAIN all : all[i] = all[j] => i = j
       /\ Range(all) = Range(generated)
       /\ \A i, j \in DOMAIN all :
            i < j => FirstAt(generated, all[i]) < FirstAt(generated, all[j])
       /\ " " \notin Range(out.normalizedTitle) =>
            /\ out.queryVariations = <<out.normalizedTitle>>
            /\ Range(all) \subseteq {probe.args[1], out.normalizedTitle}

\* The title "The dune" has given six queries, the title first and "dune"
\* second, where seven were generated.
TheDuneGivesSixQueries ==
  /\ probe.fn = "allQueries"
  /\ probe.out /= <<>>
  /\ probe.args[1] = <<"T","h","e"," ","d","u","n","e">>
  /\ Len(probe.out[1].searchVariations) + Len(probe.out[1].queryVariations) = 7
  /\ Len(probe.out[1].allQueries) = 6
  /\ probe.out[1].allQueries[1] = probe.args[1]
  /\ probe.out[1].allQueries[2] = <<"d","u","n","e">>


(***************************************************************************)
(* The year of the title                                                   *)
(***************************************************************************)

\* C28: fetchMovieData runs the cascade with the year first when a year was
\* extracted from the title, and without a year at once when none was; the
\* run without the year follows the run with the year exactly when that run
\* returned null; there is one run without the year at most; and the match
\* of the run with the year is the one that is returned.
YearFirstThenWithout ==
  /\ [](mode = "single" =>
          LET x == extractYearFromTitle(ocrTitle, ThisYear)
          IN /\ fpc = "tmdbWithYear" => x.year /= None /\ cas[1].year = x.year
             /\ fpc = "tmdb" => cas[1].year = None
             /\ fpc \in {"tmdbWithYear", "tmdb"} => cas[1].title = x.title)
  /\ [][mode = "single" =>
          LET x == extractYearFromTitle(ocrTitle, ThisYear)
              none == cas[1].pc = "returned" /\ cas[1].result = None
          IN /\ (fpc = "init" /\ fpc' /= "init") =>
                  fpc' = IF x.year /= None THEN "tmdbWithYear" ELSE "tmdb"
             /\ (fpc = "tmdbWithYear" /\ fpc' /= fpc) => (fpc' = "tmdb" <=> none)
             /\ (fpc = "tmdbWithYear" /\ fpc' /= fpc /\ cas[1].pc = "returned" /\ ~none) =>
                  /\ movieData' = cas[1].result
                  /\ cas' = cas
                  /\ fpc' \in {"omdb", "returned"}
             /\ (fpc = "tmdb" /\ fpc' /= fpc) => fpc' \in {"omdb", "returned"}
             /\ fpc = "tmdb" => Len(cas'[1].log) >= Len(cas[1].log)
             /\ (fpc' = "tmdb" /\ fpc \notin {"tmdb", "tmdbWithYear"}) => fpc = "init"]_vars

\* The run with the year 2021 has returned null, and the run without the
\* year has begun.
SecondRunWithoutYear ==
  /\ mode = "single"
  /\ extractYearFromTitle(ocrTitle, ThisYear).year = Some(2021)
  /\ fpc = "tmdb"
  /\ cas[1].year = None
  /\ cas[1].pc = "search"
  /\ Len(cas[1].log) = 1


(***************************************************************************)
(* The id in the details                                                   *)
(***************************************************************************)

\* The id that the details carry: the field imdb_id when it holds a text,
\* else the field of external_ids.
CarriedId(details) ==
  IF ~NoId(details.imdb_id) THEN details.imdb_id
  ELSE IF details.external_ids = None THEN None
  ELSE Val(details.external_ids).imdb_id

\* C29: when the details of the selected candidate carry an id that is not
\* empty, in imdb_id or in external_ids.imdb_id, the match is returned with
\* that id, and neither the external ids nor the English details are asked.
IdOfTheDetailsIsReturned ==
  (probe.fn = "details" /\ probe.out /= <<>> /\ ~NoId(CarriedId(probe.args[1]))) =>
    /\ probe.out[1].pc = "returned"
    /\ probe.out[1].result /= None
    /\ Some(Val(probe.out[1].result).imdbId) = CarriedId(probe.args[1])

\* It is, unless imdb_id is the empty text: the id of external_ids is then
\* not read, and the pass goes on as without an id.
IdOfTheDetailsUnlessEmptyFirst ==
  (probe.fn = "details" /\ probe.out /= <<>> /\ ~NoId(CarriedId(probe.args[1]))) =>
    IF probe.args[1].imdb_id = Some("")
      THEN probe.out[1].pc \in {"external", "english", "search"}
      ELSE /\ probe.out[1].pc = "returned"
           /\ probe.out[1].result /= None
           /\ Some(Val(probe.out[1].result).imdbId) = CarriedId(probe.args[1])

(***************************************************************************)
(* The relation of the selected candidate to the query                     *)
(***************************************************************************)

\* C30: the candidate that selectBestCandidate gives is related to the query
\* by its text: its tier is above 0 or a query word matches.
SelectedIsRelatedToTheQuery ==
  (probe.fn = "selectBestCandidate" /\ probe.out /= <<>> /\ probe.out[1].best /= None) =>
    LET title == normalizeText(Val(probe.out[1].best).title)
        query == normalizeText(probe.args[2])
    IN \/ textTier(title, query) > 0
       \/ matchingWords(wordsOf(query), wordsOf(title)) /= <<>>

=============================================================================
